---- MODULE Spec2Model ----
(***************************************************************************)
(* Model of src/server.js: the Express relay with GET / and                *)
(* POST /api/generate-workout-plan.                                        *)
(*                                                                         *)
(* Text (a JavaScript string) is a sequence of lexemes; JavaScript values  *)
(* are tagged records.  JSON.parse, String(), property access, optional    *)
(* chaining and truthiness are operators that compute what the runtime     *)
(* computes on those values.                                               *)
(***************************************************************************)
EXTENDS Integers, Sequences, FiniteSets, TLC

\* ------------------------------------------------------------------ bounds

\* Number of requests the server receives in one run.
NumReqs == 2

\* Length of the weeks array of the well-formed plan the upstream may return.
MaxWeeks == 3

Reqs == 1..NumReqs

\* ----------------------------------------------------------------- lexemes

P(s) == [k |-> "punct", v |-> s]
W(s) == [k |-> "word", v |-> s]
N(n) == [k |-> "num", v |-> n]
Q(text) == [k |-> "str", v |-> text]

\* ------------------------------------------------------- JavaScript values

Undef == [t |-> "undefined"]
Null == [t |-> "null"]
Bool(b) == [t |-> "bool", v |-> b]
Num(n) == [t |-> "num", v |-> n]
Str(text) == [t |-> "str", v |-> text]
Arr(items) == [t |-> "arr", v |-> items]
Obj(members) == [t |-> "obj", v |-> members]

\* An exception travelling up the stack, carrying the error's name.
Thrown(name) == [t |-> "thrown", v |-> name]

IsThrown(x) == x.t = "thrown"

\* A property name.
Key(s) == <<W(s)>>

NoMembers == <<>>

\* ----------------------------------------------------------- JSON.parse

ParseFail == [ok |-> FALSE, val |-> Undef, next |-> 0]

RECURSIVE ParseValue(_, _)
RECURSIVE ParseArrayRest(_, _, _)
RECURSIVE ParseObjectRest(_, _, _)

\* The JSON value starting at lexeme i of toks, and the position after it.
ParseValue(toks, i) ==
  IF i > Len(toks) THEN ParseFail
  ELSE LET tok == toks[i] IN
    CASE tok.k = "num" -> [ok |-> TRUE, val |-> Num(tok.v), next |-> i + 1]
      [] tok.k = "str" -> [ok |-> TRUE, val |-> Str(tok.v), next |-> i + 1]
      [] tok.k = "word" ->
           IF tok.v = "null" THEN [ok |-> TRUE, val |-> Null, next |-> i + 1]
           ELSE IF tok.v = "true" THEN [ok |-> TRUE, val |-> Bool(TRUE), next |-> i + 1]
           ELSE IF tok.v = "false" THEN [ok |-> TRUE, val |-> Bool(FALSE), next |-> i + 1]
           ELSE ParseFail
      [] tok.k = "punct" ->
           IF tok.v = "[" THEN
             IF i + 1 <= Len(toks) /\ toks[i + 1] = P("]")
             THEN [ok |-> TRUE, val |-> Arr(<<>>), next |-> i + 2]
             ELSE ParseArrayRest(toks, i + 1, <<>>)
           ELSE IF tok.v = "{" THEN
             IF i + 1 <= Len(toks) /\ toks[i + 1] = P("}")
             THEN [ok |-> TRUE, val |-> Obj(NoMembers), next |-> i + 2]
             ELSE ParseObjectRest(toks, i + 1, NoMembers)
           ELSE ParseFail

\* The rest of an array whose next element starts at lexeme i.
ParseArrayRest(toks, i, acc) ==
  LET r == ParseValue(toks, i) IN
  IF ~r.ok \/ r.next > Len(toks) THEN ParseFail
  ELSE IF toks[r.next] = P(",") THEN ParseArrayRest(toks, r.next + 1, Append(acc, r.val))
  ELSE IF toks[r.next] = P("]")
       THEN [ok |-> TRUE, val |-> Arr(Append(acc, r.val)), next |-> r.next + 1]
  ELSE ParseFail

\* The rest of an object whose next member starts at lexeme i; a repeated key
\* keeps its last value.
ParseObjectRest(toks, i, acc) ==
  IF i + 1 > Len(toks) \/ toks[i].k # "str" \/ toks[i + 1] # P(":") THEN ParseFail
  ELSE LET r == ParseValue(toks, i + 2) IN
    IF ~r.ok \/ r.next > Len(toks) THEN ParseFail
    ELSE LET members == (toks[i].v :> r.val) @@ acc IN
      IF toks[r.next] = P(",") THEN ParseObjectRest(toks, r.next + 1, members)
      ELSE IF toks[r.next] = P("}")
           THEN [ok |-> TRUE, val |-> Obj(members), next |-> r.next + 1]
      ELSE ParseFail

\* JSON.parse(text): the value, or a thrown SyntaxError.
JSONParse(text) ==
  LET r == ParseValue(text, 1) IN
  IF r.ok /\ r.next = Len(text) + 1 THEN r.val ELSE Thrown("SyntaxError")

\* ------------------------------------------------- JavaScript operations

\* ToBoolean: what `!x` and `x || y` test.
Truthy(x) ==
  CASE x.t = "undefined" -> FALSE
    [] x.t = "null" -> FALSE
    [] x.t = "bool" -> x.v
    [] x.t = "num" -> x.v # 0
    [] x.t = "str" -> x.v # <<>>
    [] OTHER -> TRUE

\* x.key: a TypeError on null and undefined, the member of an object, and
\* undefined for the names read here on every other value.
GetProp(x, key) ==
  CASE x.t \in {"undefined", "null"} -> Thrown("TypeError")
    [] x.t = "obj" -> IF key \in DOMAIN x.v THEN x.v[key] ELSE Undef
    [] OTHER -> Undef

\* x?.key: undefined on null and undefined, x.key otherwise.
OptProp(x, key) ==
  IF x.t \in {"undefined", "null"} THEN Undef ELSE GetProp(x, key)

\* x?.[0]
OptIndex0(x) ==
  CASE x.t \in {"undefined", "null"} -> Undef
    [] x.t = "arr" -> IF Len(x.v) > 0 THEN x.v[1] ELSE Undef
    [] x.t = "str" -> IF Len(x.v) > 0 THEN Str(<<x.v[1]>>) ELSE Undef
    [] x.t = "obj" -> GetProp(x, <<N(0)>>)
    [] OTHER -> Undef

\* Array.isArray(x)
IsArray(x) == x.t = "arr"

RECURSIVE ToStringJS(_)
RECURSIVE JoinJS(_, _)

\* String(x), as a template literal and JSON.parse convert their operand.
ToStringJS(x) ==
  CASE x.t = "undefined" -> <<W("undefined")>>
    [] x.t = "null" -> <<W("null")>>
    [] x.t = "bool" -> IF x.v THEN <<W("true")>> ELSE <<W("false")>>
    [] x.t = "num" -> <<N(x.v)>>
    [] x.t = "str" -> x.v
    [] x.t = "arr" -> JoinJS(x.v, 1)
    [] OTHER -> <<P("["), W("object"), W("Object"), P("]")>>

\* Array.prototype.join from element i on: null and undefined give "".
JoinJS(items, i) ==
  IF i > Len(items) THEN <<>>
  ELSE LET head == IF items[i].t \in {"undefined", "null"} THEN <<>>
                   ELSE ToStringJS(items[i])
       IN IF i = Len(items) THEN head
          ELSE head \o <<P(",")>> \o JoinJS(items, i + 1)

\* ------------------------------------------------------ texts on the wire

RECURSIVE MembersText(_, _)

\* The members of a JSON object text from member i on, comma-separated.
MembersText(members, i) ==
  IF i > Len(members) THEN <<>>
  ELSE <<Q(Key(members[i].name)), P(":")>> \o members[i].value
       \o (IF i = Len(members) THEN <<>> ELSE <<P(",")>> \o MembersText(members, i + 1))

\* The text of a JSON object with the given members (name, text of the value).
ObjectText(members) == <<P("{")>> \o MembersText(members, 1) \o <<P("}")>>

Member(name, value) == [name |-> name, value |-> value]

\* A string literal holding one word.
Lit(s) == <<Q(<<W(s)>>)>>

\* The body a client posts for a profile.
ProfileText(goal, experience, style, daysPerWeek) ==
  ObjectText(<<Member("goal", goal), Member("experience", experience),
               Member("style", style), Member("daysPerWeek", daysPerWeek)>>)

NoBody == [present |-> FALSE, text |-> <<>>]
Body(text) == [present |-> TRUE, text |-> text]

\* The profile of the specification's example, and a second complete one.
ValidBodies ==
  { Body(ProfileText(Lit("fat-loss"), Lit("beginner"), Lit("HIIT"), <<N(3)>>)),
    Body(ProfileText(Lit("strength"), Lit("advanced"), Lit("Pilates"), Lit("5"))) }

\* Bodies express.json() accepts, with a field absent or falsy; and no body.
FalsyFieldBodies ==
  { NoBody,
    Body(ObjectText(<<>>)),
    Body(<<P("["), P("]")>>),
    Body(ObjectText(<<Member("goal", Lit("fat-loss")), Member("experience", Lit("beginner")),
                      Member("daysPerWeek", <<N(3)>>)>>)),
    Body(ProfileText(<<Q(<<>>)>>, Lit("beginner"), Lit("HIIT"), <<N(3)>>)),
    Body(ProfileText(Lit("fat-loss"), Lit("beginner"), Lit("HIIT"), <<N(0)>>)),
    Body(ProfileText(Lit("fat-loss"), <<W("null")>>, Lit("HIIT"), <<N(3)>>)) }

\* Bodies express.json() rejects: a truncated object and a bare number.
RejectedBodies ==
  { Body(<<P("{"), Q(Key("goal")), P(":")>>),
    Body(<<N(3)>>) }

InvalidBodies == FalsyFieldBodies \cup RejectedBodies

RawBodies == ValidBodies \cup InvalidBodies

\* The values process.env.OPENAI_API_KEY can have at startup.
KeyValues == { Undef, Str(<<>>), Str(<<W("sk-test")>>) }

RECURSIVE WeeksText(_, _)

\* The elements of a weeks array, weeks i..n.
WeeksText(i, n) ==
  IF i > n THEN <<>>
  ELSE ObjectText(<<Member("weekNumber", <<N(i)>>)>>)
       \o (IF i = n THEN <<>> ELSE <<P(",")>> \o WeeksText(i + 1, n))

\* The text of a plan with n weeks.
PlanText(n) ==
  ObjectText(<<Member("weekCount", <<N(n)>>),
               Member("weeks", <<P("[")>> \o WeeksText(1, n) \o <<P("]")>>)>>)

\* Contents that are a plan: JSON with a weeks array.
PlanContents == { PlanText(MaxWeeks), PlanText(0) }

\* Contents that are JSON, not null, without a weeks array.
NoWeeksContents ==
  { ObjectText(<<>>),
    ObjectText(<<Member("weeks", <<N(6)>>)>>),
    ObjectText(<<Member("weeks", <<W("null")>>)>>),
    <<N(5)>>,
    Lit("plan"),
    <<P("["), N(1), P("]")>> }

\* The content that is the JSON value null.
NullContents == { <<W("null")>> }

\* Contents that are not JSON: prose around a plan, and a truncated plan.
NonJsonContents ==
  { <<W("Sure"), P(",")>> \o PlanText(0),
    <<P("{"), Q(Key("weeks")), P(":"), P("[")>> }

\* What the first choice's message content may hold; <<>> is the empty string.
Contents ==
  PlanContents \cup NoWeeksContents \cup NullContents \cup NonJsonContents \cup {<<>>}

\* The body of a completion whose first choice's message has the given members.
CompletionText(messageMembers) ==
  ObjectText(<<Member("choices",
      <<P("[")>> \o ObjectText(<<Member("message", ObjectText(messageMembers))>>)
      \o <<P("]")>>)>>)

\* The body of a completion whose first choice's message content is the string c.
ContentBody(c) == CompletionText(<<Member("content", <<Q(c)>>)>>)

\* Completion objects whose first choice's message content is absent or falsy.
NoContentBodies ==
  { ContentBody(<<>>),
    CompletionText(<<>>),
    CompletionText(<<Member("content", <<N(0)>>)>>),
    ObjectText(<<Member("choices", <<P("["), P("]")>>)>>),
    ObjectText(<<>>) }

\* Bodies json() decodes to null, and bodies it cannot decode.
NullBodies == { <<W("null")>> }
UndecodableBodies == { <<W("upstream"), W("timeout")>> }

\* Bodies of a success response.
OkBodies ==
  { ContentBody(c) : c \in Contents }
  \cup NoContentBodies \cup NullBodies \cup UndecodableBodies

\* Bodies of a non-success response.
ErrorBodies ==
  { <<W("Rate"), W("limit"), W("reached")>>,
    CompletionText(<<Member("content", <<Q(PlanText(0))>>)>>),
    <<>> }

\* ------------------------------------------------------------- the server

VARIABLES
  OPENAI_API_KEY,  \* process.env.OPENAI_API_KEY, read once at startup
  crashed,         \* an exception left a handler uncaught
  req,             \* per request: what arrived
  pc,              \* per request: where its handler is waiting
  calls,           \* per request: the outbound calls issued for it
  upstream,        \* per request: how its outbound call went so far
  sent,            \* per request: the responses written to it
  stages           \* per request: the steps its handling passed through

vars == <<OPENAI_API_KEY, crashed, req, pc, calls, upstream, sent, stages>>

GetRoot == "GET /"
PostPlan == "POST /api/generate-workout-plan"

MissingFieldsMsg == "Missing required fields. Expect goal, experience, style, daysPerWeek."
NoKeyMsg == "OPENAI_API_KEY is not configured on the server."
UpstreamFailedMsg == "Failed to generate workout plan from AI."
NotJsonMsg == "AI response was not valid JSON."
MissingWeeksMsg == "Workout plan missing 'weeks' array in AI response."
UnexpectedMsg == "Unexpected server error."

\* res.status(status).json(body)
Json(status, body) == [status |-> status, type |-> "json", body |-> body]

ErrorBody(msg) == [error |-> msg]

\* What Express's default error handler writes for an error a middleware
\* passes on: the error's status and an HTML page.
DefaultErrorPage(status) == [status |-> status, type |-> "html", body |-> [page |-> "error"]]

\* express.json(): no body leaves req.body unset; otherwise the text must
\* start an object or an array and parse, or the middleware passes an error on.
BodyParser(raw) ==
  IF ~raw.present THEN [err |-> FALSE, body |-> Undef]
  ELSE IF raw.text = <<>> \/ raw.text[1] \notin {P("{"), P("[")}
       THEN [err |-> TRUE, body |-> Undef]
  ELSE LET v == JSONParse(raw.text) IN
       IF IsThrown(v) THEN [err |-> TRUE, body |-> Undef]
       ELSE [err |-> FALSE, body |-> v]

\* buildPrompt: the template's fixed parts around the four values.
buildPrompt(goal, experience, style, daysPerWeek) ==
  <<W("You are a professional strength & conditioning coach"),
    W("- Goal: ")>> \o ToStringJS(goal)
  \o <<W("- Experience level: ")>> \o ToStringJS(experience)
  \o <<W("- Preferred workout style: ")>> \o ToStringJS(style)
  \o <<W("- Days per week: ")>> \o ToStringJS(daysPerWeek)
  \o <<W("Use the specified number of training days per week (")>>
  \o ToStringJS(daysPerWeek)
  \o <<W("Return ONLY valid JSON with this exact shape (no extra text):")>>

\* The fetch() call of the handler.
ChatCompletionCall(key, prompt) ==
  [ url |-> "https://api.openai.com/v1/chat/completions",
    authorization |-> <<W("Bearer ")>> \o ToStringJS(key),
    model |-> "gpt-4.1-mini",
    system |-> "You are a helpful fitness coach that responds ONLY with valid JSON.",
    user |-> prompt ]

\* What one run of handler code, from one suspension to the next, did: the
\* responses it wrote, the calls it issued, the steps it passed, where it
\* waits next, and the exception it threw, if any.
Ran(out, issued, passed, next) ==
  [sent |-> out, calls |-> issued, stages |-> passed, pc |-> next, threw |-> ""]

Threw(name, passed) ==
  [sent |-> <<>>, calls |-> <<>>, stages |-> passed, pc |-> "done", threw |-> name]

\* Mutant of Catch: a catch block that logs the error and writes no response.
CatchLogOnly(run) ==
  IF run.threw = "" THEN run
  ELSE Ran(<<>>, <<>>, run.stages, "done")

\* The catch block of the handler.
Catch(run) ==
  IF run.threw = "" THEN run
  ELSE Ran(<<Json(500, ErrorBody(UnexpectedMsg))>>, <<>>,
           run.stages \o <<"responded">>, "done")

\* Mutant of PlanStart: the credential is checked before the fields.
PlanStartKeyFirst(body, key) ==
  LET b == IF Truthy(body) THEN body ELSE Obj(NoMembers)
      goal == GetProp(b, Key("goal"))
      experience == GetProp(b, Key("experience"))
      style == GetProp(b, Key("style"))
      daysPerWeek == GetProp(b, Key("daysPerWeek"))
  IN IF ~Truthy(key)
     THEN Ran(<<Json(500, ErrorBody(NoKeyMsg))>>, <<>>, <<"responded">>, "done")
     ELSE IF ~Truthy(goal) \/ ~Truthy(experience) \/ ~Truthy(style) \/ ~Truthy(daysPerWeek)
     THEN Ran(<<Json(400, ErrorBody(MissingFieldsMsg))>>, <<>>, <<"responded">>, "done")
     ELSE Ran(<<>>,
              <<ChatCompletionCall(key, buildPrompt(goal, experience, style, daysPerWeek))>>,
              <<"validated", "prompted", "awaiting-upstream">>, "awaitFetch")

\* Mutant of PlanStart: the credential check tests for undefined only, so an
\* empty credential goes on to the outbound call.
PlanStartUnsetOnly(body, key) ==
  LET b == IF Truthy(body) THEN body ELSE Obj(NoMembers)
      goal == GetProp(b, Key("goal"))
      experience == GetProp(b, Key("experience"))
      style == GetProp(b, Key("style"))
      daysPerWeek == GetProp(b, Key("daysPerWeek"))
  IN IF ~Truthy(goal) \/ ~Truthy(experience) \/ ~Truthy(style) \/ ~Truthy(daysPerWeek)
     THEN Ran(<<Json(400, ErrorBody(MissingFieldsMsg))>>, <<>>, <<"responded">>, "done")
     ELSE IF key = Undef
     THEN Ran(<<Json(500, ErrorBody(NoKeyMsg))>>, <<>>, <<"validated", "responded">>, "done")
     ELSE Ran(<<>>,
              <<ChatCompletionCall(key, buildPrompt(goal, experience, style, daysPerWeek))>>,
              <<"validated", "prompted", "awaiting-upstream">>, "awaitFetch")

\* The handler from its entry to the fetch() call.
PlanStart(body, key) ==
  LET b == IF Truthy(body) THEN body ELSE Obj(NoMembers)
      goal == GetProp(b, Key("goal"))
      experience == GetProp(b, Key("experience"))
      style == GetProp(b, Key("style"))
      daysPerWeek == GetProp(b, Key("daysPerWeek"))
  IN IF ~Truthy(goal) \/ ~Truthy(experience) \/ ~Truthy(style) \/ ~Truthy(daysPerWeek)
     THEN Ran(<<Json(400, ErrorBody(MissingFieldsMsg))>>, <<>>, <<"responded">>, "done")
     ELSE IF ~Truthy(key)
     THEN Ran(<<Json(500, ErrorBody(NoKeyMsg))>>, <<>>, <<"validated", "responded">>, "done")
     ELSE Ran(<<>>,
              <<ChatCompletionCall(key, buildPrompt(goal, experience, style, daysPerWeek))>>,
              <<"validated", "prompted", "awaiting-upstream">>, "awaitFetch")

\* Mutant of PlanAfterFetch: the status is not checked.
PlanAfterFetchNoStatusCheck(ok) == Ran(<<>>, <<>>, <<>>, "awaitJson")

\* Mutant of PlanAfterFetch: a non-success status makes the call again.
PlanAfterFetchRetry(ok) ==
  IF ~ok THEN Ran(<<>>, <<ChatCompletionCall(OPENAI_API_KEY, <<>>)>>, <<>>, "awaitFetch")
  ELSE Ran(<<>>, <<>>, <<>>, "awaitJson")

\* The handler resumed by fetch() resolving: it reads the body as text or as JSON.
PlanAfterFetch(ok) ==
  IF ~ok THEN Ran(<<>>, <<>>, <<>>, "awaitText")
  ELSE Ran(<<>>, <<>>, <<>>, "awaitJson")

\* The handler resumed by openAiResponse.text().
PlanAfterText(text) ==
  Ran(<<Json(502, [error |-> UpstreamFailedMsg, details |-> text])>>, <<>>,
      <<"responded">>, "done")

\* Mutant of ContentOf: no "{}" default.
ContentOfNoDefault(data) ==
  LET choices == GetProp(data, Key("choices")) IN
  IF IsThrown(choices) THEN choices
  ELSE OptProp(OptProp(OptIndex0(choices), Key("message")), Key("content"))

\* data.choices?.[0]?.message?.content || "{}"
ContentOf(data) ==
  LET choices == GetProp(data, Key("choices")) IN
  IF IsThrown(choices) THEN choices
  ELSE LET c == OptProp(OptProp(OptIndex0(choices), Key("message")), Key("content"))
       IN IF Truthy(c) THEN c ELSE Str(<<P("{"), P("}")>>)

\* Mutant of PlanFromContent: the weeks check is left out.
PlanFromContentNoShapeCheck(content) ==
  LET plan == JSONParse(ToStringJS(content)) IN
  IF IsThrown(plan)
  THEN Ran(<<Json(500, ErrorBody(NotJsonMsg))>>, <<>>, <<"responded">>, "done")
  ELSE Ran(<<Json(200, [ok |-> TRUE, plan |-> plan])>>, <<>>,
           <<"parsed", "responded">>, "done")

\* The handler from JSON.parse(content) to its end.
PlanFromContent(content) ==
  LET plan == JSONParse(ToStringJS(content)) IN
  IF IsThrown(plan)
  THEN Ran(<<Json(500, ErrorBody(NotJsonMsg))>>, <<>>, <<"responded">>, "done")
  ELSE LET weeks == GetProp(plan, Key("weeks")) IN
    IF IsThrown(weeks) THEN Threw(weeks.v, <<"parsed">>)
    ELSE IF ~IsArray(weeks)
    THEN Ran(<<Json(500, ErrorBody(MissingWeeksMsg))>>, <<>>, <<"parsed", "responded">>, "done")
    ELSE Ran(<<Json(200, [ok |-> TRUE, plan |-> plan])>>, <<>>,
             <<"parsed", "responded">>, "done")

\* The handler resumed by openAiResponse.json(), which parsed the body or threw.
PlanAfterJson(data) ==
  IF IsThrown(data) THEN Threw(data.v, <<>>)
  ELSE LET content == ContentOf(data) IN
    IF IsThrown(content) THEN Threw(content.v, <<>>)
    ELSE PlanFromContent(content)

\* The handler of GET /.
RootHandler ==
  Ran(<<Json(200, [status |-> "ok", service |-> "flexyn-workout-backend"])>>, <<>>,
      <<"responded">>, "done")

\* ---------------------------------------------------------------- actions

NotCalled == [fetch |-> "none", ok |-> FALSE, read |-> FALSE, text |-> <<>>]
NoRequest == [route |-> "", raw |-> NoBody]

Init ==
  /\ OPENAI_API_KEY \in KeyValues
  /\ crashed = FALSE
  /\ req = [r \in Reqs |-> NoRequest]
  /\ pc = [r \in Reqs |-> "idle"]
  /\ calls = [r \in Reqs |-> <<>>]
  /\ upstream = [r \in Reqs |-> NotCalled]
  /\ sent = [r \in Reqs |-> <<>>]
  /\ stages = [r \in Reqs |-> <<>>]

\* Mutant of Dispatchable: a handler that holds the thread while it waits on
\* its outbound call, so nothing else is served meanwhile.
DispatchableBlocking(r) ==
  /\ pc[r] = "idle" /\ ~crashed
  /\ \A q \in Reqs : pc[q] \in {"idle", "done"}

\* The event loop can start the handler of a request that arrives: the
\* handlers are async and never hold the thread across their waits.
Dispatchable(r) == pc[r] = "idle" /\ ~crashed

\* The event loop can resume the handler of r, waiting at `at`.
Resumable(r, at) == pc[r] = at /\ ~crashed

\* The effect of one run of r's handler code on r's state; an exception that
\* leaves the handler ends the process.
Apply(r, run) ==
  /\ sent' = [sent EXCEPT ![r] = @ \o run.sent]
  /\ calls' = [calls EXCEPT ![r] = @ \o run.calls]
  /\ stages' = [stages EXCEPT ![r] = @ \o run.stages]
  /\ pc' = [pc EXCEPT ![r] = run.pc]
  /\ crashed' = (crashed \/ run.threw # "")

\* A GET / arrives and is answered.
Get(r) ==
  /\ Dispatchable(r)
  /\ req' = [req EXCEPT ![r] = [route |-> GetRoot, raw |-> NoBody]]
  /\ Apply(r, [RootHandler EXCEPT !.stages = <<"received">> \o @])
  /\ UNCHANGED <<OPENAI_API_KEY, upstream>>

\* A POST /api/generate-workout-plan arrives: the body parser runs, then the
\* handler up to its first wait, or the default error handler.
Post(r, raw) ==
  /\ Dispatchable(r)
  /\ req' = [req EXCEPT ![r] = [route |-> PostPlan, raw |-> raw]]
  /\ LET parsed == BodyParser(raw)
         run == IF parsed.err
                THEN Ran(<<DefaultErrorPage(400)>>, <<>>, <<"responded">>, "done")
                ELSE Catch(PlanStart(parsed.body, OPENAI_API_KEY))
     IN /\ Apply(r, [run EXCEPT !.stages = <<"received">> \o @])
        /\ upstream' = [upstream EXCEPT ![r].fetch =
                          IF run.calls # <<>> THEN "pending" ELSE @]
  /\ UNCHANGED OPENAI_API_KEY

\* The outbound call of r answers with a status, success or not.
FetchResolves(r, ok) ==
  /\ Resumable(r, "awaitFetch")
  /\ upstream' = [upstream EXCEPT ![r].fetch = "resolved", ![r].ok = ok]
  /\ Apply(r, Catch(PlanAfterFetch(ok)))
  /\ UNCHANGED <<OPENAI_API_KEY, req>>

\* The outbound call of r fails: fetch() rejects.
FetchRejects(r) ==
  /\ Resumable(r, "awaitFetch")
  /\ upstream' = [upstream EXCEPT ![r].fetch = "rejected"]
  /\ Apply(r, Catch(Threw("TypeError", <<>>)))
  /\ UNCHANGED <<OPENAI_API_KEY, req>>

\* The body of a non-success answer arrives as text.
TextResolves(r, text) ==
  /\ Resumable(r, "awaitText")
  /\ upstream' = [upstream EXCEPT ![r].read = TRUE, ![r].text = text]
  /\ Apply(r, Catch(PlanAfterText(text)))
  /\ UNCHANGED <<OPENAI_API_KEY, req>>

\* The body of a success answer arrives and openAiResponse.json() parses it.
JsonSettles(r, text) ==
  /\ Resumable(r, "awaitJson")
  /\ upstream' = [upstream EXCEPT ![r].read = TRUE, ![r].text = text]
  /\ Apply(r, Catch(PlanAfterJson(JSONParse(text))))
  /\ UNCHANGED <<OPENAI_API_KEY, req>>

\* One step of the server, the bodies of requests and of upstream answers
\* drawn from the given sets.
NextOver(bodies, okBodies, errorBodies) ==
  \E r \in Reqs :
    \/ Get(r)
    \/ \E raw \in bodies : Post(r, raw)
    \/ \E ok \in BOOLEAN : FetchResolves(r, ok)
    \/ FetchRejects(r)
    \/ \E text \in errorBodies : TextResolves(r, text)
    \/ \E text \in okBodies : JsonSettles(r, text)

Next == NextOver(RawBodies, OkBodies, ErrorBodies)

Spec == Init /\ [][Next]_vars

\* One body of each kind: the paths a request can take through the handler.
PathBodies ==
  { Body(ProfileText(Lit("fat-loss"), Lit("beginner"), Lit("HIIT"), <<N(3)>>)),
    Body(ProfileText(Lit("fat-loss"), Lit("beginner"), Lit("HIIT"), <<N(0)>>)),
    Body(<<P("{"), Q(Key("goal")), P(":")>>) }

PathOkBodies ==
  { ContentBody(PlanText(MaxWeeks)),
    ContentBody(ObjectText(<<>>)),
    ContentBody(<<W("null")>>),
    ContentBody(<<W("Sure"), P(",")>> \o PlanText(0)),
    CompletionText(<<>>) }
  \cup NullBodies \cup UndecodableBodies

PathErrorBodies == { <<W("Rate"), W("limit"), W("reached")>> }

PathNext == NextOver(PathBodies, PathOkBodies, PathErrorBodies)

\* The outbound call of r and the reading of its answer settle.
Settles(r) ==
  \/ \E ok \in BOOLEAN : FetchResolves(r, ok)
  \/ FetchRejects(r)
  \/ \E text \in PathErrorBodies : TextResolves(r, text)
  \/ \E text \in PathOkBodies : JsonSettles(r, text)

\* The server with one body per path, where every outbound call and every
\* reading of an answer eventually settles.
FairSpec == Init /\ [][PathNext]_vars /\ \A r \in Reqs : WF_vars(Settles(r))

\* ----------------------------------------------------------------- claims

IsPost(r) == req[r].route = PostPlan

\* The configured credential of the model.
Configured == OPENAI_API_KEY = Str(<<W("sk-test")>>)

SentOnly(r, response) == sent[r] = <<response>>

Has200(r) == \E i \in 1..Len(sent[r]) : sent[r][i].status = 200

\* The outbound call of r answered with a success status and this body.
AnsweredOk(r, text) ==
  /\ upstream[r].fetch = "resolved" /\ upstream[r].ok
  /\ upstream[r].read /\ upstream[r].text = text

\* The outbound call of r answered with a non-success status.
AnsweredError(r) == upstream[r].fetch = "resolved" /\ ~upstream[r].ok

\* C1: a POST whose body lacks one of goal, experience, style, daysPerWeek, or
\* holds a falsy one (an empty string, 0, null), is answered 400 with the
\* missing-fields message and causes no upstream call, with or without a
\* configured credential.
C1_MissingFields400 ==
  \A r \in Reqs :
    (IsPost(r) /\ req[r].raw \in FalsyFieldBodies) =>
      /\ SentOnly(r, Json(400, ErrorBody(MissingFieldsMsg)))
      /\ calls[r] = <<>>
      /\ upstream[r] = NotCalled

\* C1 witness: with a credential configured, a POST with daysPerWeek = 0 got
\* the 400.
C1_Witness ==
  \E r \in Reqs :
    /\ Configured
    /\ IsPost(r)
    /\ req[r].raw = Body(ProfileText(Lit("fat-loss"), Lit("beginner"), Lit("HIIT"), <<N(0)>>))
    /\ SentOnly(r, Json(400, ErrorBody(MissingFieldsMsg)))

\* C2: without a configured credential (unset or empty), a POST with all four
\* fields truthy is answered 500 with the configuration message and causes no
\* upstream call.
C2_NoCredential500 ==
  \A r \in Reqs :
    (IsPost(r) /\ req[r].raw \in ValidBodies /\ ~Configured) =>
      /\ SentOnly(r, Json(500, ErrorBody(NoKeyMsg)))
      /\ calls[r] = <<>>
      /\ upstream[r] = NotCalled

\* C2 witness: the credential is the empty string and a complete profile got
\* the 500.
C2_Witness ==
  \E r \in Reqs :
    /\ OPENAI_API_KEY = Str(<<>>)
    /\ IsPost(r) /\ req[r].raw \in ValidBodies
    /\ SentOnly(r, Json(500, ErrorBody(NoKeyMsg)))

\* C3 (as claimed): when the content is valid JSON without a weeks array, null
\* and other non-object values included, the answer is 500 with the
\* missing-weeks message.
C3_NoWeeks500 ==
  \A r \in Reqs : \A c \in NoWeeksContents \cup NullContents :
    AnsweredOk(r, ContentBody(c)) => SentOnly(r, Json(500, ErrorBody(MissingWeeksMsg)))

\* C3 restricted to contents other than null: there the missing-weeks answer
\* is given.
C3_NonNullNoWeeks500 ==
  \A r \in Reqs : \A c \in NoWeeksContents :
    AnsweredOk(r, ContentBody(c)) => SentOnly(r, Json(500, ErrorBody(MissingWeeksMsg)))

\* The content null is answered by the catch block.
C3_NullIsUnexpected ==
  \A r \in Reqs : \A c \in NullContents :
    AnsweredOk(r, ContentBody(c)) => SentOnly(r, Json(500, ErrorBody(UnexpectedMsg)))

\* C4 (as claimed): nothing propagates uncaught, every response written is a
\* JSON body with a status code, a failed outbound call and an undecodable
\* success body are answered 500 "Unexpected server error.", and the server
\* keeps serving.
C4_AllErrorsJson ==
  /\ ~crashed
  /\ \A r \in Reqs :
       /\ \A i \in 1..Len(sent[r]) : sent[r][i].type = "json"
       /\ upstream[r].fetch = "rejected" => SentOnly(r, Json(500, ErrorBody(UnexpectedMsg)))
       /\ \A text \in UndecodableBodies :
            AnsweredOk(r, text) => SentOnly(r, Json(500, ErrorBody(UnexpectedMsg)))

\* C4 restricted to what runs inside the handler: bodies express.json() accepts.
C4_HandlerErrorsJson ==
  /\ ~crashed
  /\ \A r \in Reqs :
       /\ req[r].raw \notin RejectedBodies =>
            \A i \in 1..Len(sent[r]) : sent[r][i].type = "json"
       /\ upstream[r].fetch = "rejected" => SentOnly(r, Json(500, ErrorBody(UnexpectedMsg)))
       /\ \A text \in UndecodableBodies :
            AnsweredOk(r, text) => SentOnly(r, Json(500, ErrorBody(UnexpectedMsg)))

\* C5: a non-success upstream status is answered 502 with the upstream-failed
\* message and details equal to the upstream body text as it arrived; the body
\* is never parsed as a plan and no 200 is written.
C5_UpstreamError502 ==
  \A r \in Reqs :
    AnsweredError(r) =>
      /\ ~Has200(r)
      /\ \A i \in 1..Len(stages[r]) : stages[r][i] # "parsed"
      /\ upstream[r].read =>
           SentOnly(r, Json(502, [error |-> UpstreamFailedMsg, details |-> upstream[r].text]))

\* C5 witness: a non-success answer whose body is a well-formed completion
\* with a plan was relayed as 502 details.
C5_Witness ==
  \E r \in Reqs :
    /\ AnsweredError(r) /\ upstream[r].read
    /\ upstream[r].text = ContentBody(PlanText(0))
    /\ SentOnly(r, Json(502, [error |-> UpstreamFailedMsg, details |-> ContentBody(PlanText(0))]))

\* C6: a success answer whose content is text that is not JSON is answered 500
\* with the not-valid-JSON message and nothing else in the body; an absent or
\* empty content is never answered that way, and in a completion object it is
\* answered as the content "{}" is.
C6_NotJson500 ==
  \A r \in Reqs :
    /\ \A c \in NonJsonContents :
         AnsweredOk(r, ContentBody(c)) => SentOnly(r, Json(500, [error |-> NotJsonMsg]))
    /\ \A text \in NoContentBodies \cup NullBodies :
         AnsweredOk(r, text) => sent[r] # <<Json(500, ErrorBody(NotJsonMsg))>>
    /\ \A text \in NoContentBodies :
         AnsweredOk(r, text) => SentOnly(r, Json(500, ErrorBody(MissingWeeksMsg)))

\* C6 witness: prose around a plan was answered with the not-valid-JSON message.
C6_Witness ==
  \E r \in Reqs :
    /\ AnsweredOk(r, ContentBody(<<W("Sure"), P(",")>> \o PlanText(0)))
    /\ SentOnly(r, Json(500, [error |-> NotJsonMsg]))

\* C6 second witness: a completion without a content was answered as "{}" is.
C6_AbsentWitness ==
  \E r \in Reqs :
    /\ AnsweredOk(r, CompletionText(<<>>))
    /\ SentOnly(r, Json(500, ErrorBody(MissingWeeksMsg)))

\* The value of a plan with n weeks, written down directly.
PlanValue(n) ==
  Obj((Key("weekCount") :> Num(n))
      @@ (Key("weeks") :> Arr([i \in 1..n |-> Obj(Key("weekNumber") :> Num(i))])))

\* C7: a POST is answered 200 exactly when its four fields are truthy, a
\* credential is configured, the upstream answered with a success status and
\* the content parsed as JSON with a weeks array; the body is then
\* {ok: true, plan} with plan the parsed content.
C7_SuccessIff ==
  \A r \in Reqs :
    (IsPost(r) /\ pc[r] = "done") =>
      /\ Has200(r) <=>
           /\ req[r].raw \in ValidBodies
           /\ Configured
           /\ \E c \in PlanContents : AnsweredOk(r, ContentBody(c))
      /\ \A n \in {0, MaxWeeks} :
           AnsweredOk(r, ContentBody(PlanText(n))) =>
             SentOnly(r, Json(200, [ok |-> TRUE, plan |-> PlanValue(n)]))

\* C7 witness: the example profile and a plan of MaxWeeks weeks gave the 200.
C7_Witness ==
  \E r \in Reqs :
    /\ req[r].raw = Body(ProfileText(Lit("fat-loss"), Lit("beginner"), Lit("HIIT"), <<N(3)>>))
    /\ AnsweredOk(r, ContentBody(PlanText(MaxWeeks)))
    /\ SentOnly(r, Json(200, [ok |-> TRUE, plan |-> PlanValue(MaxWeeks)]))
    /\ Len(sent[r][1].body.plan.v[Key("weeks")].v) = MaxWeeks

\* The outbound call of r, or the reading or use of its answer, failed.
UpstreamFailed(r) ==
  \/ upstream[r].fetch = "rejected"
  \/ AnsweredError(r) /\ upstream[r].read
  \/ \E text \in OkBodies \ {ContentBody(c) : c \in PlanContents} : AnsweredOk(r, text)

\* C8: a request causes at most one outbound call, whatever its outcome, and
\* after a failure the request has its error response and waits for nothing.
C8_NoRetry ==
  \A r \in Reqs :
    /\ Len(calls[r]) <= 1
    /\ UpstreamFailed(r) =>
         /\ pc[r] = "done"
         /\ Len(sent[r]) = 1
         /\ sent[r][1].status \in {500, 502}

\* C8 witness: an outbound call was rejected and the request is answered, one
\* call made.
C8_Witness ==
  \E r \in Reqs :
    upstream[r].fetch = "rejected" /\ Len(calls[r]) = 1 /\ Len(sent[r]) = 1

\* The request lifecycle, in order.
Lifecycle ==
  <<"received", "validated", "prompted", "awaiting-upstream", "parsed", "responded">>

\* The place of a step in the lifecycle.
Rank(stage) == CHOOSE i \in 1..Len(Lifecycle) : Lifecycle[i] = stage

\* The steps of r so far are lifecycle steps in lifecycle order, none twice.
InOrder(r) ==
  /\ \A i \in 1..Len(stages[r]) : \E j \in 1..Len(Lifecycle) : stages[r][i] = Lifecycle[j]
  /\ \A i, j \in 1..Len(stages[r]) : i < j => Rank(stages[r][i]) < Rank(stages[r][j])
  /\ stages[r] # <<>> => stages[r][1] = "received"

\* r has its one response exactly when its handling has ended, and then
\* "responded" is its last step.
OneResponse(r) ==
  /\ Len(sent[r]) <= 1
  /\ Len(sent[r]) = 1 <=> pc[r] = "done"
  /\ Len(sent[r]) = 1 <=> (stages[r] # <<>> /\ stages[r][Len(stages[r])] = "responded")

\* Nothing of r changes once its response is written.
Quiet(r) ==
  sent[r] # <<>> =>
    /\ sent'[r] = sent[r] /\ stages'[r] = stages[r] /\ calls'[r] = calls[r]
    /\ pc'[r] = pc[r] /\ upstream'[r] = upstream[r] /\ req'[r] = req[r]

\* The lifecycle without its liveness part, for every input of Spec.
C9_LifecycleSafety ==
  /\ [](\A r \in Reqs : InOrder(r) /\ OneResponse(r))
  /\ [][\A r \in Reqs : Quiet(r)]_vars

\* C9: a request passes through received, validated, prompted,
\* awaiting-upstream, parsed, responded in that order, possibly failing at a
\* step; it ends with exactly one response if the outbound call and the
\* reading of its answer settle; and nothing runs for it after the response.
C9_Lifecycle ==
  /\ [](\A r \in Reqs : InOrder(r) /\ OneResponse(r))
  /\ [][\A r \in Reqs : Quiet(r)]_vars
  /\ \A r \in Reqs : (pc[r] # "idle") ~> (Len(sent[r]) = 1 /\ pc[r] = "done")

\* C9 witness: a request went through the whole lifecycle and has one response.
C9_Witness ==
  \E r \in Reqs : stages[r] = Lifecycle /\ Len(sent[r]) = 1 /\ sent[r][1].status = 200

InFlight(r) == pc[r] \in {"awaitFetch", "awaitText", "awaitJson"}

\* Requests with the same input and the same upstream outcome have the same
\* response and the same outbound call; outbound calls of different profiles
\* differ.
OwnInputsOnly ==
  \A r1, r2 \in Reqs :
    /\ (pc[r1] = "done" /\ pc[r2] = "done" /\ req[r1] = req[r2] /\ upstream[r1] = upstream[r2])
         => (sent[r1] = sent[r2] /\ calls[r1] = calls[r2])
    /\ (calls[r1] # <<>> /\ calls[r2] # <<>> /\ req[r1].raw # req[r2].raw)
         => calls[r1][1].user # calls[r2][1].user

\* While a request waits on its outbound call, a request that arrives is
\* served: GET / can be answered, and the handler of a POST can be started.
NotBlocked ==
  \A r, q \in Reqs :
    (InFlight(r) /\ pc[q] = "idle") =>
      /\ ENABLED Get(q)
      /\ Dispatchable(q)

\* A step changes the state of one request only.
Isolated ==
  \A r1, r2 \in Reqs :
    r1 # r2 =>
      \/ <<req[r1], pc[r1], calls[r1], upstream[r1], sent[r1], stages[r1]>>'
           = <<req[r1], pc[r1], calls[r1], upstream[r1], sent[r1], stages[r1]>>
      \/ <<req[r2], pc[r2], calls[r2], upstream[r2], sent[r2], stages[r2]>>'
           = <<req[r2], pc[r2], calls[r2], upstream[r2], sent[r2], stages[r2]>>

\* C10: under every interleaving, the response to a request depends on its
\* own body, the credential and the outcome of its own outbound call; a step
\* of one request leaves the others' state alone; and a request waiting on its
\* outbound call does not keep other requests, GET / included, from being
\* answered.
C10_RequestScoped ==
  /\ [](OwnInputsOnly /\ NotBlocked)
  /\ [][Isolated /\ OPENAI_API_KEY' = OPENAI_API_KEY]_vars

\* C10 witness: two requests with different profiles wait on their outbound
\* calls at once, so the second was taken up while the first was waiting.
C10_Witness ==
  \E r1, r2 \in Reqs :
    /\ r1 # r2 /\ InFlight(r1) /\ InFlight(r2)
    /\ req[r1].raw # req[r2].raw
    /\ calls[r1] # calls[r2]

====
